---- MODULE Spec2Model ----
(***************************************************************************)
(* Model of main.py of exchangeRate-mcp: the process-wide cache `_cache`   *)
(* with its daily 11:00 Asia/Kathmandu expiration, and the three handlers  *)
(* that read and write it (get_bullion_prices, get_forex_rates,            *)
(* get_banking_rates).  Handlers are asyncio coroutines: the code between  *)
(* two awaits runs atomically, and the only awaits that separate reads of  *)
(* the cache from writes to it are the outbound `client.get` calls.        *)
(*                                                                         *)
(* Instants are whole hours of Asia/Kathmandu wall-clock time counted from *)
(* a local midnight (the zone has a fixed offset, so aware datetimes       *)
(* compare as these integers do).                                          *)
(***************************************************************************)
EXTENDS Integers, Sequences, FiniteSets, TLC

(***************************************************************************)
(* Bounds of the model.                                                    *)
(***************************************************************************)
NumProcs == 2        \* handler invocations that may be in flight at once
Lead == 1            \* the process starts this many hours before an 11:00
Horizon == 1         \* the clock is followed this many hours past that 11:00
NumVersions == 1     \* editions of each upstream feed
ClockDays == 5       \* days of start hours the expiration policy is tried on
MaxRecords == 2      \* records in a forex feed whose codes vary in case

(***************************************************************************)
(* Program constants.                                                      *)
(***************************************************************************)
ExpirationHour == 11     \* now.replace(hour=11, ...)
HoursPerDay == 24        \* timedelta(days=1)

Procs == 1..NumProcs
StartHour == ExpirationHour - Lead
MaxTime == ExpirationHour + Horizon
Slots == {"forex", "bullion"}

(***************************************************************************)
(* Python values.  Every value is a record tagged by its type, so that     *)
(* values of different types can be stored in one place and compared.      *)
(* A str is a sequence of text pieces (a literal chunk or one character),  *)
(* read as their concatenation.                                            *)
(***************************************************************************)
None == [t |-> "None"]
PyBool(b) == [t |-> "bool", b |-> b]
PyInt(n) == [t |-> "int", n |-> n]
PyStr(s) == [t |-> "str", s |-> s]
PyList(items) == [t |-> "list", items |-> items]
PyDict(d) == [t |-> "dict", d |-> d]
EmptyDict == PyDict(<<>>)
EmptyList == PyList(<<>>)

\* bool(v): None, 0, "", [] and {} are falsy
Truthy(v) ==
    CASE v.t = "None" -> FALSE
      [] v.t = "bool" -> v.b
      [] v.t = "int"  -> v.n # 0
      [] v.t = "str"  -> v.s # <<>>
      [] v.t = "list" -> v.items # <<>>
      [] v.t = "dict" -> DOMAIN v.d # {}
      [] OTHER -> TRUE

\* d.get(key): the value under key, None when the key is missing
DictGet(v, key) == IF key \in DOMAIN v.d THEN v.d[key] ELSE None

\* d[key] = val, on a dict
DictSet(v, key, val) ==
    PyDict([k \in (DOMAIN v.d) \cup {key} |-> IF k = key THEN val ELSE v.d[k]])

(***************************************************************************)
(* str operations used by the handlers.                                    *)
(***************************************************************************)
LowerCase == <<"a", "d", "e", "l", "r", "s", "u", "x", "y", "z">>
UpperCase == <<"A", "D", "E", "L", "R", "S", "U", "X", "Y", "Z">>
Whitespace == {" "}

CharUpper(c) ==
    IF \E i \in DOMAIN LowerCase : LowerCase[i] = c
        THEN UpperCase[CHOOSE i \in DOMAIN LowerCase : LowerCase[i] = c]
        ELSE c

CharLower(c) ==
    IF \E i \in DOMAIN UpperCase : UpperCase[i] = c
        THEN LowerCase[CHOOSE i \in DOMAIN UpperCase : UpperCase[i] = c]
        ELSE c

\* s.upper(), s.lower() on the pieces of a str
StrUpper(s) == [i \in DOMAIN s |-> CharUpper(s[i])]
StrLower(s) == [i \in DOMAIN s |-> CharLower(s[i])]

\* s.strip(): drop leading and trailing whitespace
RECURSIVE LStrip(_)
LStrip(s) ==
    IF s # <<>> /\ Head(s) \in Whitespace THEN LStrip(Tail(s)) ELSE s

RECURSIVE RStrip(_)
RStrip(s) ==
    IF s # <<>> /\ s[Len(s)] \in Whitespace
        THEN RStrip(SubSeq(s, 1, Len(s) - 1))
        ELSE s

StrStrip(s) == RStrip(LStrip(s))

\* str(n) of a non-negative int: its decimal digits
DigitChar == <<"0", "1", "2", "3", "4", "5", "6", "7", "8", "9">>

RECURSIVE IntStr(_)
IntStr(n) ==
    IF n < 10 THEN <<DigitChar[n + 1]>>
    ELSE IntStr(n \div 10) \o <<DigitChar[(n % 10) + 1]>>

\* sep.join(parts), parts a sequence of strs
RECURSIVE StrJoin(_, _)
StrJoin(sep, parts) ==
    IF parts = <<>> THEN <<>>
    ELSE IF Len(parts) = 1 THEN parts[1]
    ELSE parts[1] \o sep \o StrJoin(sep, Tail(parts))

\* the text an f-string gives for a value: {v}
Format(v) ==
    CASE v.t = "None" -> <<"None">>
      [] v.t = "bool" -> IF v.b THEN <<"True">> ELSE <<"False">>
      [] v.t = "int"  -> IntStr(v.n)
      [] v.t = "str"  -> v.s
      [] OTHER -> <<"<repr>">>

(***************************************************************************)
(* Exceptions, and the outcome of a piece of code that may raise.          *)
(***************************************************************************)
Exc(type, status, msg) == [type |-> type, status |-> status, msg |-> msg]
Returns(v) == [ok |-> TRUE, val |-> v, exc |-> Exc("", 0, <<>>)]
Raises(e) == [ok |-> FALSE, val |-> None, exc |-> e]

TimeoutException == Exc("TimeoutException", 0, <<"The read operation timed out">>)
ConnectError == Exc("ConnectError", 0, <<"All connection attempts failed">>)
HTTPStatusError(status) ==
    Exc("HTTPStatusError", status, <<"Server error for url">>)
JSONDecodeError ==
    Exc("JSONDecodeError", 0, <<"Expecting value: line 1 column 1 (char 0)">>)
\* type(v).__name__
TypeName(v) == IF v.t = "None" THEN "NoneType" ELSE v.t

AttributeError(v, attr) ==
    Exc("AttributeError", 0,
        <<"'", TypeName(v), "' object has no attribute '", attr, "'">>)
TypeError(msg) == Exc("TypeError", 0, msg)
IndexError == Exc("IndexError", 0, <<"list index out of range">>)
KeyError(key) == Exc("KeyError", 0, <<key>>)

(***************************************************************************)
(* What the two upstream providers may answer.  A response is a timeout,   *)
(* a network-level failure, or a status line with a body; the body is a    *)
(* JSON value or text that is not JSON.                                    *)
(***************************************************************************)
Malformed == [t |-> "malformed"]

Response(kind, status, body) == [kind |-> kind, status |-> status, body |-> body]

\* the bullion feed's object, in its v-th edition
BullionBody(v) ==
    PyDict([fine_gold |-> PyInt(100 + v), silver |-> PyInt(10 + v),
            unit |-> PyStr(<<"tola">>), date |-> PyStr(<<"day", IntStr(v)[1]>>)])

\* one record of the forex feed
RateRecord(code, v) ==
    PyDict([currency |-> PyStr(code), unit |-> PyInt(1), buy |-> PyInt(130 + v),
            sell |-> PyInt(131 + v), date |-> PyStr(<<"day", IntStr(v)[1]>>)])

\* the forex feed's array, in its v-th edition
ForexBody(v) ==
    PyList(<<RateRecord(<<"u", "s", "d">>, v), RateRecord(<<"e", "u", "r">>, v)>>)

ErrorBody == PyDict([error |-> PyStr(<<"maintenance">>)])

\* bodies of a 200 response: the expected ones, an empty one, and JSON of
\* another shape (for the forex feed also JSON null)
BullionBodies ==
    {BullionBody(v) : v \in 1..NumVersions} \cup {EmptyDict, PyList(<<PyInt(1)>>)}

ForexBodies ==
    {ForexBody(v) : v \in 1..NumVersions} \cup {EmptyList, None, ErrorBody}

ErrorStatuses == {404, 500}

Failures ==
    {Response("timeout", 0, None), Response("network", 0, None)}
        \cup {Response("status", n, ErrorBody) : n \in ErrorStatuses}
        \cup {Response("status", 200, Malformed)}

BullionResponses == Failures \cup {Response("status", 200, b) : b \in BullionBodies}
ForexResponses == Failures \cup {Response("status", 200, b) : b \in ForexBodies}

\* Arguments given to get_forex_rates
ALL == <<"A", "L", "L">>
Currencies == {ALL, <<" ", "U", "s", "d", " ">>, <<"x", "y", "z">>}

\* Feeds and arguments for the lookup of one currency: every sequence of up to
\* MaxRecords records whose codes are spelt as a feed may spell them, and the
\* spellings of an argument a caller may give
FeedCodes == {<<"u", "s", "d">>, <<"U", "S", "D">>, <<"e", "u", "r">>}

LookupBodies ==
    {PyList(items) :
        items \in UNION {[1..n -> {RateRecord(code, 1) : code \in FeedCodes}] :
                            n \in 0..MaxRecords}}

LookupResponses == Failures \cup {Response("status", 200, b) : b \in LookupBodies}

LookupCurrencies ==
    {<<"u", "s", "d">>, <<"U", "S", "D">>, <<" ", "U", "s", "d", " ">>,
     ALL, <<" ", "a", "l", "l", " ">>, <<"x", "y", "z">>}

(***************************************************************************)
(* State.                                                                  *)
(***************************************************************************)
VARIABLES
    now,        \* the current instant: datetime.now(npt_tz)
    cache,      \* _cache: slot -> [data, expires_at]
    task,       \* the handler invocations in flight, with their local variables
    ret,        \* the invocation that returned last, and what it returned
    lastWrite   \* history: per slot, the instant and the writer of the last
                \* set_cache, and the instant of the request it stored

vars == <<now, cache, task, ret, lastWrite>>

\* a timezone-aware datetime, as its instant
Instant(h) == [t |-> "datetime", h |-> h]

(***************************************************************************)
(* Expiration policy and cache store.                                      *)
(***************************************************************************)
\* now.replace(hour=11, minute=0, second=0, microsecond=0)
ReplaceHour(t, hour) == (t \div HoursPerDay) * HoursPerDay + hour

\* with now > expiration
get_cache_expiration_strict ==
    LET expiration == ReplaceHour(now, ExpirationHour)
    IN  IF now > expiration
            THEN Instant(expiration + HoursPerDay)
            ELSE Instant(expiration)

get_cache_expiration ==
    LET expiration == ReplaceHour(now, ExpirationHour)
    IN  IF now >= expiration
            THEN Instant(expiration + HoursPerDay)
            ELSE Instant(expiration)

\* without the comparison with expires_at
is_cache_valid_unexpiring(cache_key) ==
    LET cache_entry == cache[cache_key]
    IN  IF cache_entry.data = None THEN FALSE
        ELSE IF cache_entry.expires_at = None THEN FALSE
        ELSE TRUE

\* with now <= expires_at
is_cache_valid_inclusive(cache_key) ==
    LET cache_entry == cache[cache_key]
    IN  IF cache_entry.data = None THEN FALSE
        ELSE IF cache_entry.expires_at = None THEN FALSE
        ELSE now <= cache_entry.expires_at.h

is_cache_valid(cache_key) ==
    LET cache_entry == cache[cache_key]
    IN  IF cache_entry.data = None THEN FALSE
        ELSE IF cache_entry.expires_at = None THEN FALSE
        ELSE now < cache_entry.expires_at.h

\* a write that leaves a valid entry alone
set_cache_if_absent(c, cache_key, data) ==
    IF c[cache_key].data # None /\ c[cache_key].expires_at # None
            /\ now < c[cache_key].expires_at.h
        THEN c
        ELSE [c EXCEPT ![cache_key] = [data |-> data, expires_at |-> get_cache_expiration]]

\* a write that keeps the expiration the slot already has
set_cache_keep_expiry(c, cache_key, data) ==
    [c EXCEPT ![cache_key] =
        [data |-> data,
         expires_at |-> IF c[cache_key].expires_at # None
                            THEN c[cache_key].expires_at
                            ELSE get_cache_expiration]]

\* the value of _cache after set_cache(cache_key, data)
set_cache(c, cache_key, data) ==
    [c EXCEPT ![cache_key] = [data |-> data, expires_at |-> get_cache_expiration]]

\* without the validity check
get_cache_unchecked(cache_key) == cache[cache_key].data

get_cache(cache_key) ==
    IF is_cache_valid(cache_key) THEN cache[cache_key].data ELSE None

\* _cache after is_cache_valid(cache_key): the function reads the entry and
\* assigns nothing
is_cache_valid_effect(c, cache_key) == c

\* with a stale entry deleted when it is met
get_cache_effect_evicting(c, cache_key) ==
    IF c[cache_key].data # None /\ ~is_cache_valid(cache_key)
        THEN [c EXCEPT ![cache_key] = [data |-> None, expires_at |-> None]]
        ELSE c

\* _cache after get_cache(cache_key): the function calls is_cache_valid, reads
\* the entry and assigns nothing
get_cache_effect(c, cache_key) == is_cache_valid_effect(c, cache_key)

(***************************************************************************)
(* Handler invocations.  A task is idle or suspended in one `client.get`;  *)
(* its record holds the handler's local variables that live across the     *)
(* await, the number of `client.get` calls the invocation has made and     *)
(* the instant of the one it is suspended in.                              *)
(***************************************************************************)
IdleTask ==
    [pc |-> "idle", currency |-> <<>>, forex_data |-> None, bullion_data |-> None,
     from_cache |-> FALSE, requests |-> 0, asked |-> None]

NoResponse == Response("none", 0, None)

NoReturn == [tool |-> "", currency |-> <<>>, result |-> None, resp |-> NoResponse]

\* ret after a handler returned result, having received resp (NoResponse when it
\* issued no request).  Returns are recorded when seen holds, which it does in
\* the runs where one invocation is made at a time.
Return(seen, tool, currency, result, resp) ==
    IF seen
        THEN [tool |-> tool, currency |-> currency, result |-> result, resp |-> resp]
        ELSE ret

\* the instant of a request, recorded like the returns when seen holds
Asked(seen) == IF seen THEN Instant(now) ELSE None

NeverWritten == [at |-> None, tool |-> "", payload |-> None, asked |-> None]

\* the slot a suspended task is fetching for
SlotOf(pc) ==
    IF pc \in {"forex_get", "banking_forex_get"} THEN "forex"
    ELSE IF pc \in {"bullion_get", "banking_bullion_get"} THEN "bullion"
    ELSE ""

\* task p has left its handler
Leave(p) == [task EXCEPT ![p] = IdleTask]

\* lastWrite after set_cache(slot, payload) by tool, whose request was made at asked
RecordWrite(slot, tool, payload, asked) ==
    [lastWrite EXCEPT ![slot] = [at |-> Instant(now), tool |-> tool,
                                 payload |-> payload, asked |-> asked]]

Init ==
    /\ now = StartHour
    /\ cache = [slot \in Slots |-> [data |-> None, expires_at |-> None]]
    /\ task = [p \in Procs |-> IdleTask]
    /\ ret = NoReturn
    /\ lastWrite = [slot \in Slots |-> NeverWritten]

\* the clock advances; nothing else changes
Tick ==
    /\ now < MaxTime
    /\ now' = now + 1
    /\ UNCHANGED <<cache, task, ret, lastWrite>>

(***************************************************************************)
(* client.get(url, timeout=10.0); response.raise_for_status();             *)
(* response.json()                                                         *)
(***************************************************************************)
\* without response.raise_for_status()
FetchJson_no_raise_for_status(resp) ==
    IF resp.kind = "timeout" THEN Raises(TimeoutException)
    ELSE IF resp.kind = "network" THEN Raises(ConnectError)
    ELSE IF resp.body = Malformed THEN Raises(JSONDecodeError)
    ELSE Returns(resp.body)

FetchJson(resp) ==
    IF resp.kind = "timeout" THEN Raises(TimeoutException)
    ELSE IF resp.kind = "network" THEN Raises(ConnectError)
    ELSE IF ~(resp.status >= 200 /\ resp.status <= 299)
        THEN Raises(HTTPStatusError(resp.status))
    ELSE IF resp.body = Malformed THEN Raises(JSONDecodeError)
    ELSE Returns(resp.body)

FailureResult(error) == PyDict([error |-> PyStr(error), success |-> PyBool(FALSE)])

\* an exception that leaves the handler uncaught
Uncaught(e) == [t |-> "raised", exc |-> e]

(***************************************************************************)
(* get_bullion_prices                                                      *)
(***************************************************************************)
BULLION_URL == PyStr(<<"BULLION_URL">>)
FOREX_URL == PyStr(<<"FOREX_URL">>)

\* without the last clause, except Exception
BullionExcept_no_catch_all(e) ==
    IF e.type = "TimeoutException"
        THEN FailureResult(<<"Request timed out. Please try again.">>)
    ELSE IF e.type = "HTTPStatusError"
        THEN FailureResult(<<"HTTP error occurred: ">> \o IntStr(e.status))
    ELSE Uncaught(e)

\* the except clauses of get_bullion_prices
BullionExcept(e) ==
    IF e.type = "TimeoutException"
        THEN FailureResult(<<"Request timed out. Please try again.">>)
    ELSE IF e.type = "HTTPStatusError"
        THEN FailureResult(<<"HTTP error occurred: ">> \o IntStr(e.status))
    ELSE FailureResult(<<"Unexpected error: ">> \o e.msg)

\* tagged cached from the start
BullionResult_cached(data, url) ==
    PyDict([success |-> PyBool(TRUE), cached |-> PyBool(TRUE),
            fine_gold |-> DictGet(data, "fine_gold"), silver |-> DictGet(data, "silver"),
            unit |-> DictGet(data, "unit"), date |-> DictGet(data, "date"),
            raw |-> data])

\* the result built from the feed's object
BullionResult(data, url) ==
    LET unit == DictGet(data, "unit")
        fine_gold == DictGet(data, "fine_gold")
        silver == DictGet(data, "silver")
        date == DictGet(data, "date")
    IN  PyDict([
            success |-> PyBool(TRUE),
            tool |-> PyStr(<<"get_bullion_prices">>),
            category |-> PyStr(<<"bullion_prices">>),
            schema_version |-> PyStr(<<"1.0">>),
            cached |-> PyBool(FALSE),
            data |-> PyDict([
                gold |-> PyDict([amount |-> fine_gold, unit |-> unit,
                                 currency |-> PyStr(<<"NPR">>)]),
                silver |-> PyDict([amount |-> silver, unit |-> unit,
                                   currency |-> PyStr(<<"NPR">>)]),
                date |-> date,
                source |-> url]),
            fine_gold |-> fine_gold,
            silver |-> silver,
            unit |-> unit,
            date |-> date,
            raw |-> data,
            message |-> PyStr(<<"Fine Gold: ">> \o Format(fine_gold) \o <<" per ">>
                              \o Format(unit) \o <<", Silver: ">> \o Format(silver)
                              \o <<" per ">> \o Format(unit) \o <<" (as of ">>
                              \o Format(date) \o <<")">>)])

\* The handler up to its await: the cache check, and on a hit the return of
\* the cached object with its cached key set in place.
get_bullion_prices(p, seen) ==
    /\ task[p].pc = "idle"
    /\ LET cached_data == get_cache("bullion")
           hit == DictSet(cached_data, "cached", PyBool(TRUE))
           unsupported ==
               IF cached_data.t = "list"
                   THEN TypeError(<<"list indices must be integers or slices, not str">>)
                   ELSE TypeError(<<"'", TypeName(cached_data),
                                    "' object does not support item assignment">>)
       IN  IF Truthy(cached_data) /\ cached_data.t = "dict"
               THEN /\ cache' = [get_cache_effect(cache, "bullion")
                                        EXCEPT !["bullion"].data = hit]
                    /\ ret' = Return(seen, "get_bullion_prices", <<>>, hit, NoResponse)
                    /\ task' = task
           ELSE IF Truthy(cached_data)
               THEN /\ cache' = get_cache_effect(cache, "bullion")
                    /\ ret' = Return(seen, "get_bullion_prices", <<>>,
                                     BullionExcept(unsupported), NoResponse)
                    /\ task' = task
           ELSE /\ task' = [task EXCEPT ![p].pc = "bullion_get",
                                        ![p].requests = @ + 1,
                                            ![p].asked = Asked(seen)]
                /\ cache' = get_cache_effect(cache, "bullion")
                /\ ret' = ret
    /\ UNCHANGED <<now, lastWrite>>

\* what the handler does with the response: the result it returns and, when it
\* caches one, the payload it passes to set_cache
BullionOutcome(resp) ==
    LET fetched == FetchJson(resp)
        data == fetched.val
    IN  IF ~fetched.ok
            THEN [result |-> BullionExcept(fetched.exc), wrote |-> FALSE]
        ELSE IF data.t # "dict"
            THEN [result |-> BullionExcept(AttributeError(data, "get")), wrote |-> FALSE]
        ELSE [result |-> BullionResult(data, BULLION_URL), wrote |-> TRUE]

\* The handler from the response on: the result is built, cached and returned,
\* or an exception is turned into a failure result.
get_bullion_prices_resume(p, resp, seen) ==
    /\ task[p].pc = "bullion_get"
    /\ LET out == BullionOutcome(resp)
       IN  /\ IF out.wrote
                  THEN /\ cache' = set_cache(cache, "bullion", out.result)
                       /\ lastWrite' = RecordWrite("bullion", "get_bullion_prices",
                                                   out.result, task[p].asked)
                  ELSE UNCHANGED <<cache, lastWrite>>
           /\ ret' = Return(seen, "get_bullion_prices", <<>>, out.result, resp)
           /\ task' = Leave(p)
    /\ UNCHANGED now

(***************************************************************************)
(* get_forex_rates                                                         *)
(***************************************************************************)
\* with except Exception as the first clause
ForexExcept_catch_all_first(e) == FailureResult(<<"Unexpected error: ">> \o e.msg)

\* the except clauses of get_forex_rates
ForexExcept(e) ==
    IF e.type = "TimeoutException"
        THEN FailureResult(<<"Request timed out. Please try again.">>)
    ELSE IF e.type = "HTTPStatusError"
        THEN FailureResult(<<"HTTP error occurred: ">> \o IntStr(e.status))
    ELSE FailureResult(<<"Unexpected error: ">> \o e.msg)

\* the keys of a dict, in iteration order
RECURSIVE KeySeq(_)
KeySeq(keys) ==
    IF keys = {} THEN <<>>
    ELSE LET k == CHOOSE x \in keys : TRUE
         IN  <<PyStr(<<k>>)>> \o KeySeq(keys \ {k})

\* len(v)
PyLen(v) ==
    CASE v.t = "list" -> Returns(PyInt(Len(v.items)))
      [] v.t = "dict" -> Returns(PyInt(Cardinality(DOMAIN v.d)))
      [] v.t = "str"  -> Returns(PyInt(Len(v.s)))
      [] OTHER -> Raises(TypeError(<<"object of type '", TypeName(v), "' has no len()">>))

\* the elements `for rate in v` visits
PyIter(v) ==
    CASE v.t = "list" -> Returns(PyList(v.items))
      [] v.t = "dict" -> Returns(PyList(KeySeq(DOMAIN v.d)))
      [] OTHER -> Raises(TypeError(<<"'", TypeName(v), "' object is not iterable">>))

\* the first element of items that is no dict, 0 if all are
FirstNonDict(items) ==
    IF \E i \in DOMAIN items : items[i].t # "dict"
        THEN CHOOSE i \in DOMAIN items :
                /\ items[i].t # "dict"
                /\ \A j \in 1..(i - 1) : items[j].t = "dict"
        ELSE 0

\* rate.get("currency", "")
CurrencyOf(rate) ==
    IF "currency" \in DOMAIN rate.d THEN rate.d["currency"] ELSE PyStr(<<>>)

\* the first element of items (all dicts) whose currency is no str, 0 if none
FirstNonStr(items) ==
    IF \E i \in DOMAIN items : CurrencyOf(items[i]).t # "str"
        THEN CHOOSE i \in DOMAIN items :
                /\ CurrencyOf(items[i]).t # "str"
                /\ \A j \in 1..(i - 1) : CurrencyOf(items[j]).t = "str"
        ELSE 0

\* the result for currency "ALL"
AllRatesResult(data, count, from_cache) ==
    PyDict([
        success |-> PyBool(TRUE),
        tool |-> PyStr(<<"get_forex_rates">>),
        category |-> PyStr(<<"forex_rates">>),
        schema_version |-> PyStr(<<"1.0">>),
        cached |-> PyBool(from_cache),
        data |-> PyDict([rates |-> data, source |-> FOREX_URL]),
        rates |-> data,
        count |-> count,
        raw |-> data,
        message |-> PyStr(<<"Retrieved ">> \o Format(count)
                          \o <<" forex rates from Nepal Rastra Bank">>)])

\* with the codes listed as the feed spells them, without .upper()
NotFoundResult_as_spelt(currency, items) ==
    LET available_currencies ==
            StrJoin(<<",", " ">>, [i \in DOMAIN items |-> CurrencyOf(items[i]).s])
    IN  PyDict([
            success |-> PyBool(FALSE),
            error |-> PyStr(<<"Currency '">> \o StrUpper(currency)
                            \o <<"' not found. Available currencies: ">>
                            \o available_currencies),
            tool |-> PyStr(<<"get_forex_rates">>),
            category |-> PyStr(<<"forex_rates">>)])

\* the result when no record has the requested code
NotFoundResult(currency, items) ==
    LET available_currencies ==
            StrJoin(<<",", " ">>,
                    [i \in DOMAIN items |-> StrUpper(CurrencyOf(items[i]).s)])
    IN  PyDict([
            success |-> PyBool(FALSE),
            error |-> PyStr(<<"Currency '">> \o StrUpper(currency)
                            \o <<"' not found. Available currencies: ">>
                            \o available_currencies),
            tool |-> PyStr(<<"get_forex_rates">>),
            category |-> PyStr(<<"forex_rates">>)])

\* the result for the record found
RateResult(rate_info, from_cache) ==
    LET rate_obj ==
            [currency |-> PyStr(StrUpper(CurrencyOf(rate_info).s)),
             unit |-> DictGet(rate_info, "unit"),
             buy |-> DictGet(rate_info, "buy"),
             sell |-> DictGet(rate_info, "sell"),
             date |-> DictGet(rate_info, "date"),
             source |-> FOREX_URL]
    IN  PyDict([
            success |-> PyBool(TRUE),
            tool |-> PyStr(<<"get_forex_rates">>),
            category |-> PyStr(<<"forex_rates">>),
            schema_version |-> PyStr(<<"1.0">>),
            cached |-> PyBool(from_cache),
            data |-> PyDict(rate_obj),
            currency |-> rate_obj.currency,
            unit |-> rate_obj.unit,
            buy |-> rate_obj.buy,
            sell |-> rate_obj.sell,
            date |-> rate_obj.date,
            raw |-> rate_info,
            message |-> PyStr(rate_obj.currency.s \o <<" - Buy: NPR ">>
                              \o Format(rate_obj.buy) \o <<", Sell: NPR ">>
                              \o Format(rate_obj.sell) \o <<" per ">>
                              \o Format(rate_obj.unit) \o <<" unit(s)">>)])

\* with the argument compared to "ALL" as it is given: currency == "ALL"
ForexAnswer_exact_all(currency, data, from_cache) ==
    IF currency = <<"A", "L", "L">>
        THEN LET count == PyLen(data)
             IN  IF count.ok THEN Returns(AllRatesResult(data, count.val, from_cache))
                 ELSE count
    ELSE LET currency_lower == StrStrip(StrLower(currency))
             rates == PyIter(data)
             items == rates.val.items
             filtered == SelectSeq(items,
                            LAMBDA rate : DictGet(rate, "currency") = PyStr(currency_lower))
         IN  IF ~rates.ok THEN rates
             ELSE IF FirstNonDict(items) # 0
                 THEN Raises(AttributeError(items[FirstNonDict(items)], "get"))
             ELSE IF filtered = <<>>
                 THEN IF FirstNonStr(items) # 0
                         THEN Raises(AttributeError(
                                  CurrencyOf(items[FirstNonStr(items)]), "upper"))
                         ELSE Returns(NotFoundResult(currency, items))
             ELSE IF CurrencyOf(filtered[1]).t # "str"
                 THEN Raises(AttributeError(CurrencyOf(filtered[1]), "upper"))
             ELSE Returns(RateResult(filtered[1], from_cache))

\* The handler after the data is at hand: what it returns or raises for currency.
ForexAnswer(currency, data, from_cache) ==
    IF StrStrip(StrUpper(currency)) = <<"A", "L", "L">>
        THEN LET count == PyLen(data)
             IN  IF count.ok THEN Returns(AllRatesResult(data, count.val, from_cache))
                 ELSE count
    ELSE LET currency_lower == StrStrip(StrLower(currency))
             rates == PyIter(data)
             items == rates.val.items
             filtered == SelectSeq(items,
                            LAMBDA rate : DictGet(rate, "currency") = PyStr(currency_lower))
         IN  IF ~rates.ok THEN rates
             ELSE IF FirstNonDict(items) # 0
                 THEN Raises(AttributeError(items[FirstNonDict(items)], "get"))
             ELSE IF filtered = <<>>
                 THEN IF FirstNonStr(items) # 0
                         THEN Raises(AttributeError(
                                  CurrencyOf(items[FirstNonStr(items)]), "upper"))
                         ELSE Returns(NotFoundResult(currency, items))
             ELSE IF CurrencyOf(filtered[1]).t # "str"
                 THEN Raises(AttributeError(CurrencyOf(filtered[1]), "upper"))
             ELSE Returns(RateResult(filtered[1], from_cache))

\* try: ... except: around the answer
ForexResult(currency, data, from_cache) ==
    LET answer == ForexAnswer(currency, data, from_cache)
    IN  IF answer.ok THEN answer.val ELSE ForexExcept(answer.exc)

\* The handler up to its await: the cache check, and on a hit the answer from
\* the cached data.
get_forex_rates(p, currency, seen) ==
    /\ task[p].pc = "idle"
    /\ LET cached_data == get_cache("forex")
           data == IF Truthy(cached_data) THEN cached_data ELSE None
           from_cache == data # None
       IN  IF ~Truthy(data)
               THEN /\ task' = [task EXCEPT ![p].pc = "forex_get",
                                            ![p].currency = currency,
                                            ![p].requests = @ + 1,
                                            ![p].asked = Asked(seen)]
                    /\ ret' = ret
               ELSE /\ ret' = Return(seen, "get_forex_rates", currency,
                                     ForexResult(currency, data, from_cache), NoResponse)
                    /\ task' = task
    /\ cache' = get_cache_effect(cache, "forex")
    /\ UNCHANGED <<now, lastWrite>>

\* with a second request after a failed one
get_forex_rates_resume_retry(p, resp, seen) ==
    /\ task[p].pc = "forex_get"
    /\ LET fetched == FetchJson(resp)
           data == fetched.val
       IN  IF ~fetched.ok /\ task[p].requests < 2
               THEN /\ task' = [task EXCEPT ![p].requests = @ + 1,
                                            ![p].asked = Asked(seen)]
                    /\ UNCHANGED <<ret, cache, lastWrite>>
           ELSE IF ~fetched.ok
               THEN /\ ret' = Return(seen, "get_forex_rates", task[p].currency,
                                     ForexExcept(fetched.exc), resp)
                    /\ task' = Leave(p)
                    /\ UNCHANGED <<cache, lastWrite>>
               ELSE /\ cache' = set_cache(cache, "forex", data)
                    /\ lastWrite' = RecordWrite("forex", "get_forex_rates", data,
                                                   task[p].asked)
                    /\ ret' = Return(seen, "get_forex_rates", task[p].currency,
                                     ForexResult(task[p].currency, data, FALSE), resp)
                    /\ task' = Leave(p)
    /\ UNCHANGED now

\* The handler from the response on: the parsed body is cached as it is, then
\* the answer is made from it.
get_forex_rates_resume(p, resp, seen) ==
    /\ task[p].pc = "forex_get"
    /\ LET fetched == FetchJson(resp)
           data == fetched.val
       IN  IF ~fetched.ok
               THEN /\ ret' = Return(seen, "get_forex_rates", task[p].currency,
                                     ForexExcept(fetched.exc), resp)
                    /\ task' = Leave(p)
                    /\ UNCHANGED <<cache, lastWrite>>
               ELSE /\ cache' = set_cache(cache, "forex", data)
                    /\ lastWrite' = RecordWrite("forex", "get_forex_rates", data,
                                                   task[p].asked)
                    /\ ret' = Return(seen, "get_forex_rates", task[p].currency,
                                     ForexResult(task[p].currency, data, FALSE), resp)
                    /\ task' = Leave(p)
    /\ UNCHANGED now

(***************************************************************************)
(* get_banking_rates                                                       *)
(***************************************************************************)
\* the except clause of get_banking_rates
BankingExcept(e) == PyStr(<<"Error fetching banking rates: ">> \o e.msg)

\* v[0]
FirstItem(v) ==
    CASE v.t = "list" -> IF v.items = <<>> THEN Raises(IndexError)
                         ELSE Returns(v.items[1])
      [] v.t = "dict" -> Raises(KeyError("0"))
      [] OTHER -> Raises(TypeError(<<"'", TypeName(v), "' object is not subscriptable">>))

\* d.get(key, default)
DictGetOr(v, key, default) == IF key \in DOMAIN v.d THEN v.d[key] ELSE default

\* the first of the rows that is no dict or whose currency is no str, 0 if none
FirstBadRow(rows) ==
    IF \E i \in DOMAIN rows : rows[i].t # "dict" \/ CurrencyOf(rows[i]).t # "str"
        THEN CHOOSE i \in DOMAIN rows :
                /\ rows[i].t # "dict" \/ CurrencyOf(rows[i]).t # "str"
                /\ \A j \in 1..(i - 1) :
                        rows[j].t = "dict" /\ CurrencyOf(rows[j]).t = "str"
        ELSE 0

\* one row of the table of rates
RateRow(rate) ==
    <<"| ">> \o StrUpper(CurrencyOf(rate).s) \o <<" | ">>
        \o Format(DictGetOr(rate, "unit", PyInt(1))) \o <<" | ">>
        \o Format(DictGetOr(rate, "buy", PyStr(<<"N/A">>))) \o <<" | ">>
        \o Format(DictGetOr(rate, "sell", PyStr(<<"N/A">>))) \o <<" |\n">>

\* the formatted text, or the exception the formatting raises
BankingText(forex_data, bullion_data, from_cache) ==
    LET first == FirstItem(forex_data)
        bullion_raw == IF bullion_data.t = "dict" /\ "raw" \in DOMAIN bullion_data.d
                           THEN bullion_data.d["raw"]
                           ELSE bullion_data
        shown == SubSeq(forex_data.items, 1,
                        IF Len(forex_data.items) < 10 THEN Len(forex_data.items) ELSE 10)
    IN  IF ~first.ok THEN first
        ELSE IF first.val.t # "dict" THEN Raises(AttributeError(first.val, "get"))
        ELSE IF bullion_raw.t # "dict" THEN Raises(AttributeError(bullion_raw, "get"))
        ELSE IF FirstBadRow(shown) # 0
            THEN IF shown[FirstBadRow(shown)].t # "dict"
                    THEN Raises(AttributeError(shown[FirstBadRow(shown)], "get"))
                    ELSE Raises(AttributeError(CurrencyOf(shown[FirstBadRow(shown)]),
                                               "upper"))
        ELSE Returns(PyStr(
                <<"# Nepal Rastra Bank - Daily Banking Rates\n\n", "**Last Updated:** ">>
                \o Format(DictGetOr(first.val, "date", PyStr(<<"N/A">>)))
                \o <<" at 11:00 AM NPT\n", "**Cached:** ",
                     IF from_cache THEN "Yes" ELSE "No", "\n\n",
                     "## Bullion Prices (NPR)\n\n", "- **Fine Gold:** NPR ">>
                \o Format(DictGet(bullion_raw, "fine_gold")) \o <<" per ">>
                \o Format(DictGet(bullion_raw, "unit")) \o <<"\n", "- **Silver:** NPR ">>
                \o Format(DictGet(bullion_raw, "silver")) \o <<" per ">>
                \o Format(DictGet(bullion_raw, "unit")) \o <<"\n", "- **Date:** ">>
                \o Format(DictGet(bullion_raw, "date"))
                \o <<"\n\n", "## Foreign Exchange Rates\n\n",
                     "| Currency | Unit | Buy (NPR) | Sell (NPR) |\n",
                     "|----------|------|-----------|------------|\n">>
                \o StrJoin(<<>>, [i \in DOMAIN shown |-> RateRow(shown[i])])
                \o <<"\n**Total Currencies Available:** ">>
                \o IntStr(Len(forex_data.items))
                \o <<"\n", "\n---\n",
                     "*Rates are updated daily at 11:00 AM NPT by Nepal Rastra Bank*\n">>))

\* try: ... except: around the formatting
BankingResult(forex_data, bullion_data, from_cache) ==
    LET text == BankingText(forex_data, bullion_data, from_cache)
    IN  IF text.ok THEN text.val ELSE BankingExcept(text.exc)

\* The resource handler up to its first await: both cache checks, and the text
\* when both slots hit.
get_banking_rates(p, seen) ==
    /\ task[p].pc = "idle"
    /\ LET forex_data == get_cache("forex")
           bullion_data == get_cache("bullion")
           from_cache == forex_data # None /\ bullion_data # None
       IN  IF ~Truthy(forex_data)
               THEN /\ task' = [task EXCEPT ![p].pc = "banking_forex_get",
                                            ![p].bullion_data = bullion_data,
                                            ![p].from_cache = from_cache,
                                            ![p].requests = @ + 1,
                                            ![p].asked = Asked(seen)]
                    /\ ret' = ret
           ELSE IF ~Truthy(bullion_data)
               THEN /\ task' = [task EXCEPT ![p].pc = "banking_bullion_get",
                                            ![p].forex_data = forex_data,
                                            ![p].from_cache = from_cache,
                                            ![p].requests = @ + 1,
                                            ![p].asked = Asked(seen)]
                    /\ ret' = ret
           ELSE /\ ret' = Return(seen, "get_banking_rates", <<>>,
                                 BankingResult(forex_data, bullion_data, from_cache),
                                 NoResponse)
                /\ task' = task
    /\ cache' = get_cache_effect(get_cache_effect(cache, "forex"), "bullion")
    /\ UNCHANGED <<now, lastWrite>>

\* From the forex response on: the parsed body is cached; the bullion request
\* follows when the bullion slot had missed.
get_banking_rates_forex(p, resp, seen) ==
    /\ task[p].pc = "banking_forex_get"
    /\ LET fetched == FetchJson(resp)
           forex_data == fetched.val
           bullion_data == task[p].bullion_data
       IN  IF ~fetched.ok
               THEN /\ ret' = Return(seen, "get_banking_rates", <<>>,
                                     BankingExcept(fetched.exc), resp)
                    /\ task' = Leave(p)
                    /\ UNCHANGED <<cache, lastWrite>>
               ELSE /\ cache' = set_cache(cache, "forex", forex_data)
                    /\ lastWrite' = RecordWrite("forex", "get_banking_rates", forex_data,
                                                   task[p].asked)
                    /\ IF ~Truthy(bullion_data)
                          THEN /\ task' = [task EXCEPT
                                              ![p].pc = "banking_bullion_get",
                                              ![p].forex_data = forex_data,
                                              ![p].requests = @ + 1,
                                            ![p].asked = Asked(seen)]
                               /\ ret' = ret
                          ELSE /\ task' = Leave(p)
                               /\ ret' = Return(seen, "get_banking_rates", <<>>,
                                                BankingResult(forex_data, bullion_data,
                                                              task[p].from_cache),
                                                resp)
    /\ UNCHANGED now

\* From the bullion response on: the parsed body is cached as it is, and the
\* text is made.
get_banking_rates_bullion(p, resp, seen) ==
    /\ task[p].pc = "banking_bullion_get"
    /\ LET fetched == FetchJson(resp)
           bullion_data == fetched.val
       IN  IF ~fetched.ok
               THEN /\ ret' = Return(seen, "get_banking_rates", <<>>,
                                     BankingExcept(fetched.exc), resp)
                    /\ task' = Leave(p)
                    /\ UNCHANGED <<cache, lastWrite>>
               ELSE /\ cache' = set_cache(cache, "bullion", bullion_data)
                    /\ lastWrite' = RecordWrite("bullion", "get_banking_rates",
                                                bullion_data, task[p].asked)
                    /\ ret' = Return(seen, "get_banking_rates", <<>>,
                                     BankingResult(task[p].forex_data, bullion_data,
                                                   task[p].from_cache),
                                     resp)
                    /\ task' = Leave(p)
    /\ UNCHANGED now

(***************************************************************************)
(* Specifications.  Spec: any number of invocations up to NumProcs in      *)
(* flight at once (the argument of get_forex_rates, which the cache does   *)
(* not depend on, is "ALL").  SpecCalls: one invocation at a time, by one  *)
(* caller, with every argument, each return recorded in ret.               *)
(***************************************************************************)
Next ==
    \/ Tick
    \/ \E p \in Procs : get_bullion_prices(p, FALSE)
    \/ \E p \in Procs : \E resp \in BullionResponses :
            get_bullion_prices_resume(p, resp, FALSE)
    \/ \E p \in Procs : get_forex_rates(p, ALL, FALSE)
    \/ \E p \in Procs : \E resp \in ForexResponses :
            get_forex_rates_resume(p, resp, FALSE)
    \/ \E p \in Procs : get_banking_rates(p, FALSE)
    \/ \E p \in Procs : \E resp \in ForexResponses :
            get_banking_rates_forex(p, resp, FALSE)
    \/ \E p \in Procs : \E resp \in BullionResponses :
            get_banking_rates_bullion(p, resp, FALSE)

Spec == Init /\ [][Next]_vars

Caller == CHOOSE p \in Procs : \A q \in Procs : p <= q

NextCalls ==
    \/ Tick
    \/ get_bullion_prices(Caller, TRUE)
    \/ \E resp \in BullionResponses : get_bullion_prices_resume(Caller, resp, TRUE)
    \/ \E currency \in Currencies : get_forex_rates(Caller, currency, TRUE)
    \/ \E resp \in ForexResponses : get_forex_rates_resume(Caller, resp, TRUE)
    \/ get_banking_rates(Caller, TRUE)
    \/ \E resp \in ForexResponses : get_banking_rates_forex(Caller, resp, TRUE)
    \/ \E resp \in BullionResponses : get_banking_rates_bullion(Caller, resp, TRUE)

SpecCalls == Init /\ [][NextCalls]_vars

\* SpecClock: the process starts at any hour of ClockDays days and the bullion
\* tool is called, which stamps the slot with the expiration of that hour.
InitClock ==
    /\ now \in 0..(ClockDays * HoursPerDay - 1)
    /\ cache = [slot \in Slots |-> [data |-> None, expires_at |-> None]]
    /\ task = [p \in Procs |-> IdleTask]
    /\ ret = NoReturn
    /\ lastWrite = [slot \in Slots |-> NeverWritten]

NextClock ==
    \/ get_bullion_prices(Caller, TRUE)
    \/ \E resp \in BullionResponses : get_bullion_prices_resume(Caller, resp, TRUE)

SpecClock == InitClock /\ [][NextClock]_vars

\* SpecLookup: get_forex_rates is called, one call at a time, with every
\* spelling of the argument, on feeds whose records spell their codes in either
\* case.
NextLookup ==
    \/ Tick
    \/ \E currency \in LookupCurrencies : get_forex_rates(Caller, currency, TRUE)
    \/ \E resp \in LookupResponses : get_forex_rates_resume(Caller, resp, TRUE)

SpecLookup == Init /\ [][NextLookup]_vars


(***************************************************************************)
(* Properties.                                                             *)
(***************************************************************************)
\* The boundary after instant t as the specification words it: 11:00 of t's
\* date when t's time of day is before 11:00, 11:00 of the next date otherwise.
nextBoundary(t) ==
    IF t % HoursPerDay < ExpirationHour
        THEN (t \div HoursPerDay) * HoursPerDay + ExpirationHour
        ELSE ((t \div HoursPerDay) + 1) * HoursPerDay + ExpirationHour

\* v is the object payload: equal to it, or to it with the cached key that a
\* cache hit of get_bullion_prices sets in place on the stored dict
SameObject(v, payload) ==
    \/ v = payload
    \/ /\ payload.t = "dict"
       /\ v = DictSet(payload, "cached", PyBool(TRUE))

\* C1: after set_cache(slot, payload) at t0 with a non-null payload and no later
\* set_cache on the slot, get_cache(slot) is that payload at every instant
\* before nextBoundary(t0) and None at every instant from nextBoundary(t0) on.
C1_GetAfterSet ==
    \A slot \in Slots :
        (lastWrite[slot].at # None /\ lastWrite[slot].payload # None) =>
            LET t0 == lastWrite[slot].at.h
            IN  /\ now < nextBoundary(t0) =>
                    SameObject(get_cache(slot), lastWrite[slot].payload)
                /\ now >= nextBoundary(t0) => get_cache(slot) = None

\* a payload written before 11:00 is still stored, and absent, at 11:00 or later
C1_Witness ==
    \E slot \in Slots :
        /\ lastWrite[slot].at # None
        /\ lastWrite[slot].payload # None
        /\ now >= nextBoundary(lastWrite[slot].at.h)
        /\ cache[slot].data # None
        /\ get_cache(slot) = None

\* C2: at every instant, get_cache_expiration is 11:00 of the same date before
\* 11:00 and 11:00 of the next date from 11:00 sharp on; it is later than the
\* instant and at most 24 hours later.
C2_NextBoundary ==
    /\ get_cache_expiration = Instant(nextBoundary(now))
    /\ now % HoursPerDay < ExpirationHour =>
            get_cache_expiration.h = now - (now % HoursPerDay) + ExpirationHour
    /\ now % HoursPerDay >= ExpirationHour =>
            get_cache_expiration.h
                = now - (now % HoursPerDay) + HoursPerDay + ExpirationHour
    /\ get_cache_expiration.h > now
    /\ get_cache_expiration.h <= now + HoursPerDay

\* the slot was stamped at 11:00 sharp, with the 11:00 of the next day
C2_Witness ==
    /\ now % HoursPerDay = ExpirationHour
    /\ lastWrite["bullion"].at = Instant(now)
    /\ cache["bullion"].expires_at = Instant(now + HoursPerDay)

\* C8: in every state and for each slot, a non-null payload comes with a
\* non-null expires_at, which is nextBoundary of the instant of the write that
\* stored this payload.
C8_ExpiresWithPayload ==
    \A slot \in Slots :
        cache[slot].data # None =>
            /\ cache[slot].expires_at # None
            /\ lastWrite[slot].at # None
            /\ SameObject(cache[slot].data, lastWrite[slot].payload)
            /\ cache[slot].expires_at = Instant(nextBoundary(lastWrite[slot].at.h))

\* a payload written after 11:00 carries the 11:00 of the next day
C8_Witness ==
    \E slot \in Slots :
        /\ cache[slot].data # None
        /\ now > ExpirationHour
        /\ lastWrite[slot].at = Instant(now)
        /\ cache[slot].expires_at = Instant(ExpirationHour + HoursPerDay)

\* the response is a 200 whose body is a JSON object
FeedObject(resp) == resp.kind = "status" /\ resp.status = 200 /\ resp.body.t = "dict"

\* the response is a timeout or has a status outside 2xx
FetchFailed(resp) ==
    \/ resp.kind = "timeout"
    \/ resp.kind = "status" /\ ~(resp.status >= 200 /\ resp.status <= 299)

\* the slot's entry is past its expiration
Stale(slot) == cache[slot].expires_at # None /\ now >= cache[slot].expires_at.h

BullionFields == {"fine_gold", "silver", "unit", "date"}

\* C3: a get_bullion_prices call that receives the feed's object returns a
\* result tagged cached=false and leaves it in the bullion slot, valid; a call
\* made after that, before the next boundary, issues no request and returns a
\* result tagged cached=true with the fine_gold, silver, unit and date of the
\* first result.
C3_BullionTwice ==
    [][/\ task[Caller].pc = "bullion_get" =>
            \A resp \in BullionResponses :
                (FeedObject(resp) /\ get_bullion_prices_resume(Caller, resp, TRUE)) =>
                    /\ ret'.result.t = "dict"
                    /\ DictGet(ret'.result, "cached") = PyBool(FALSE)
                    /\ cache'["bullion"].data = ret'.result
                    /\ cache'["bullion"].expires_at # None
                    /\ now < cache'["bullion"].expires_at.h
       /\ ( /\ task[Caller].pc = "idle"
            /\ lastWrite["bullion"].tool = "get_bullion_prices"
            /\ now < nextBoundary(lastWrite["bullion"].at.h)
            /\ get_bullion_prices(Caller, TRUE) ) =>
                /\ task'[Caller].pc = "idle"
                /\ ret'.resp = NoResponse
                /\ ret'.result.t = "dict"
                /\ DictGet(ret'.result, "cached") = PyBool(TRUE)
                /\ \A k \in BullionFields :
                        DictGet(ret'.result, k) = DictGet(lastWrite["bullion"].payload, k)
      ]_vars

\* the second call has returned the first call's prices from the cache
C3_Witness ==
    /\ ret.tool = "get_bullion_prices"
    /\ ret.resp = NoResponse
    /\ lastWrite["bullion"].tool = "get_bullion_prices"
    /\ ret.result.t = "dict"
    /\ DictGet(ret.result, "cached") = PyBool(TRUE)
    /\ DictGet(ret.result, "fine_gold") = PyInt(101)
    /\ DictGet(ret.result, "silver") = PyInt(11)

\* a request for slot is in flight although the slot holds a valid payload:
\* another invocation wrote the slot after this one had missed
Raced(p, slot) == SlotOf(task[p].pc) = slot /\ Truthy(get_cache(slot))

\* C4: when an invocation's request comes back after another invocation has
\* written the same slot, it writes the slot too, and the slot then holds the
\* payload and the expires_at of this later write, both of them.
C4_LastWriteWins ==
    [][\A p \in Procs :
        /\ Raced(p, "forex") =>
              \A resp \in ForexResponses :
                ( /\ FetchJson(resp).ok
                  /\ \/ get_forex_rates_resume(p, resp, FALSE)
                     \/ get_banking_rates_forex(p, resp, FALSE) ) =>
                    cache'["forex"] = [data |-> resp.body,
                                       expires_at |-> Instant(nextBoundary(now))]
        /\ Raced(p, "bullion") =>
              \A resp \in BullionResponses :
                /\ (FeedObject(resp) /\ get_bullion_prices_resume(p, resp, FALSE)) =>
                        cache'["bullion"] = [data |-> BullionOutcome(resp).result,
                                             expires_at |-> Instant(nextBoundary(now))]
                /\ (FetchJson(resp).ok /\ get_banking_rates_bullion(p, resp, FALSE)) =>
                        cache'["bullion"] = [data |-> resp.body,
                                             expires_at |-> Instant(nextBoundary(now))]
      ]_vars

\* two requests for the forex slot were in flight together and one has written
\* the slot, after 11:00, while the other is still to come back
C4_Witness ==
    \E p \in Procs :
        /\ task[p].pc = "forex_get"
        /\ Raced(p, "forex")
        /\ lastWrite["forex"].tool = "get_forex_rates"
        /\ now >= ExpirationHour

\* C5: an invocation of get_bullion_prices or get_forex_rates whose request
\* times out or comes back with a status outside 2xx leaves the cache as it
\* was, at the request and at the failure.
C5_FailedFetchKeepsSlot ==
    [][/\ task[Caller].pc = "idle" =>
            /\ (get_bullion_prices(Caller, TRUE) /\ task'[Caller].pc = "bullion_get") =>
                    cache' = cache
            /\ \A currency \in Currencies :
                 ( /\ task'[Caller].pc = "forex_get"
                   /\ get_forex_rates(Caller, currency, TRUE) ) =>
                    cache' = cache
       /\ task[Caller].pc = "bullion_get" =>
            \A resp \in BullionResponses :
                (FetchFailed(resp) /\ get_bullion_prices_resume(Caller, resp, TRUE)) =>
                    cache' = cache
       /\ task[Caller].pc = "forex_get" =>
            \A resp \in ForexResponses :
                (FetchFailed(resp) /\ get_forex_rates_resume(Caller, resp, TRUE)) =>
                    cache' = cache
      ]_vars

\* get_forex_rates got a 500 and the forex slot is still unpopulated
C5_Witness ==
    /\ ret.tool = "get_forex_rates"
    /\ ret.resp.kind = "status"
    /\ ret.resp.status = 500
    /\ cache["forex"] = [data |-> None, expires_at |-> None]

TimedOutResult ==
    PyDict([success |-> PyBool(FALSE),
            error |-> PyStr(<<"Request timed out. Please try again.">>)])

\* C6: get_bullion_prices and get_forex_rates answer a timeout with
\* {success: false, error: "Request timed out. Please try again."}, a status N
\* outside 2xx with {success: false, error: "HTTP error occurred: N"}, and any
\* other failure of the fetch with success=false and an error that begins
\* "Unexpected error: ".
C6_FailureResults ==
    ret.tool \in {"get_bullion_prices", "get_forex_rates"} =>
        /\ ret.resp.kind = "timeout" => ret.result = TimedOutResult
        /\ (ret.resp.kind = "status" /\ FetchFailed(ret.resp)) =>
                ret.result = PyDict([success |-> PyBool(FALSE),
                                     error |-> PyStr(<<"HTTP error occurred: ">>
                                                     \o IntStr(ret.resp.status))])
        /\ ( \/ ret.resp.kind = "network"
             \/ ret.resp.kind = "status" /\ ret.resp.body = Malformed ) =>
                /\ ret.result.t = "dict"
                /\ DOMAIN ret.result.d = {"success", "error"}
                /\ ret.result.d.success = PyBool(FALSE)
                /\ ret.result.d.error.t = "str"
                /\ Head(ret.result.d.error.s) = "Unexpected error: "

\* get_forex_rates has answered a 500
C6_Witness ==
    /\ ret.tool = "get_forex_rates"
    /\ ret.resp.kind = "status"
    /\ ret.resp.status = 500
    /\ ret.result = PyDict([success |-> PyBool(FALSE),
                            error |-> PyStr(<<"HTTP error occurred: ", "5", "0", "0">>)])

\* C7: whatever the cache holds, the upstream answers and the argument is,
\* get_bullion_prices and get_forex_rates return a dict, no exception leaves
\* them, and a result with success=false has a str under error.
C7_AlwaysStructured ==
    ret.tool \in {"get_bullion_prices", "get_forex_rates"} =>
        /\ ret.result.t = "dict"
        /\ DictGet(ret.result, "success") = PyBool(FALSE) =>
                DictGet(ret.result, "error").t = "str"

\* get_bullion_prices has met a cached payload it cannot tag and has returned
\* a failure result
C7_Witness ==
    /\ ret.tool = "get_bullion_prices"
    /\ ret.resp = NoResponse
    /\ ret.result.t = "dict"
    /\ DictGet(ret.result, "success") = PyBool(FALSE)
    /\ Head(DictGet(ret.result, "error").s) = "Unexpected error: "

\* C9 as stated: a check that finds the slot valid, whatever non-null payload
\* it holds, issues no request and answers cached=true; a check that finds it
\* not valid issues a request.
C9_FetchIffMiss ==
    [][/\ \A currency \in Currencies :
            get_forex_rates(Caller, currency, TRUE) =>
                IF is_cache_valid("forex")
                    THEN /\ task'[Caller].pc = "idle"
                         /\ ret'.resp = NoResponse
                    ELSE task'[Caller].pc = "forex_get"
       /\ get_bullion_prices(Caller, TRUE) =>
                IF is_cache_valid("bullion")
                    THEN /\ task'[Caller].pc = "idle"
                         /\ ret'.resp = NoResponse
                    ELSE task'[Caller].pc = "bullion_get"
      ]_vars

\* C10: a handler invoked when the slot's entry is past its expires_at issues a
\* request instead of answering from the entry, and when a request comes back
\* with data while the entry is past its expires_at, the entry becomes the new
\* payload with a boundary computed at that instant, nothing else.
C10_StaleRefetched ==
    [][\A p \in Procs :
        /\ (Stale("forex") /\ task[p].pc = "idle" /\ get_forex_rates(p, ALL, FALSE)) =>
                task'[p].pc = "forex_get" /\ cache' = cache
        /\ (Stale("bullion") /\ task[p].pc = "idle" /\ get_bullion_prices(p, FALSE)) =>
                task'[p].pc = "bullion_get" /\ cache' = cache
        /\ (Stale("forex") /\ task[p].pc = "idle" /\ get_banking_rates(p, FALSE)) =>
                task'[p].pc = "banking_forex_get" /\ cache' = cache
        /\ (Stale("bullion") /\ task[p].pc = "idle" /\ get_banking_rates(p, FALSE)) =>
                task'[p].pc \in {"banking_forex_get", "banking_bullion_get"}
                    /\ task'[p].bullion_data = None /\ cache' = cache
        /\ (Stale("forex") /\ SlotOf(task[p].pc) = "forex") =>
              \A resp \in ForexResponses :
                ( /\ FetchJson(resp).ok
                  /\ \/ get_forex_rates_resume(p, resp, FALSE)
                     \/ get_banking_rates_forex(p, resp, FALSE) ) =>
                    cache'["forex"] = [data |-> resp.body,
                                       expires_at |-> Instant(nextBoundary(now))]
        /\ (Stale("bullion") /\ task[p].pc = "bullion_get") =>
              \A resp \in BullionResponses :
                (FeedObject(resp) /\ get_bullion_prices_resume(p, resp, FALSE)) =>
                    cache'["bullion"] = [data |-> BullionResult(resp.body, BULLION_URL),
                                         expires_at |-> Instant(nextBoundary(now))]
      ]_vars

\* a request for the forex slot is in flight while the slot still stores the
\* payload that expired at 11:00
C10_Witness ==
    \E p \in Procs :
        /\ task[p].pc = "forex_get"
        /\ Stale("forex")
        /\ Truthy(cache["forex"].data)
        /\ lastWrite["forex"].at.h < ExpirationHour

\* the argument as the claims compare it: trimmed, case ignored
Fold(currency) == StrStrip(StrLower(currency))

\* the response is a 200 whose body is a JSON array
FeedSequence(resp) == resp.kind = "status" /\ resp.status = 200 /\ resp.body.t = "list"

\* the records of items whose code is currency, ignoring case and the
\* whitespace around currency
Matching(currency, items) ==
    {i \in DOMAIN items : StrLower(CurrencyOf(items[i]).s) = Fold(currency)}

\* result is the answer made from the first record of items that carries
\* currency's code, if any record does
Resolves(currency, items, result) ==
    Matching(currency, items) # {} =>
        LET first == CHOOSE i \in Matching(currency, items) :
                        \A j \in Matching(currency, items) : i <= j
        IN  /\ DictGet(result, "success") = PyBool(TRUE)
            /\ DictGet(result, "raw") = items[first]

\* C11 as stated: a get_forex_rates call for one currency, answered from the
\* cache or from a fetched sequence, finds a record whenever some record's code
\* equals the argument after trimming and ignoring case, and it is the first
\* such record, so that arguments equal after trimming and case-folding get the
\* same record.
C11_CaseInsensitiveMatch ==
    [][/\ task[Caller].pc = "idle" =>
            \A currency \in LookupCurrencies :
                ( /\ Fold(currency) # Fold(ALL)
                  /\ get_forex_rates(Caller, currency, TRUE)
                  /\ task'[Caller].pc = "idle" ) =>
                    Resolves(currency, cache["forex"].data.items, ret'.result)
       /\ task[Caller].pc = "forex_get" =>
            \A resp \in LookupResponses :
                ( /\ Fold(task[Caller].currency) # Fold(ALL)
                  /\ FeedSequence(resp)
                  /\ get_forex_rates_resume(Caller, resp, TRUE) ) =>
                    Resolves(task[Caller].currency, resp.body.items, ret'.result)
      ]_vars

\* the codes of items, uppercased, in order, separated by ", "
RECURSIVE CodesListed(_)
CodesListed(items) ==
    IF items = <<>> THEN <<>>
    ELSE StrUpper(CurrencyOf(items[1]).s)
            \o (IF Len(items) > 1 THEN <<",", " ">> \o CodesListed(Tail(items))
                 ELSE <<>>)

\* text ends with tail
EndsWith(text, tail) ==
    /\ Len(text) >= Len(tail)
    /\ SubSeq(text, Len(text) - Len(tail) + 1, Len(text)) = tail

\* result is a failure whose message lists the codes of items, if no record of
\* items carries currency's code
ListsCodes(currency, items, result) ==
    Matching(currency, items) = {} =>
        /\ DictGet(result, "success") = PyBool(FALSE)
        /\ DictGet(result, "error").t = "str"
        /\ EndsWith(DictGet(result, "error").s, CodesListed(items))

\* C12: a get_forex_rates call for a code that no record of the cached or
\* fetched sequence carries (and that is not ALL) returns success=false with an
\* error message that lists the code of every record, uppercased, in sequence
\* order, separated by ", ".
C12_NotFoundListsCodes ==
    [][/\ task[Caller].pc = "idle" =>
            \A currency \in LookupCurrencies :
                ( /\ Fold(currency) # Fold(ALL)
                  /\ get_forex_rates(Caller, currency, TRUE)
                  /\ task'[Caller].pc = "idle" ) =>
                    ListsCodes(currency, cache["forex"].data.items, ret'.result)
       /\ task[Caller].pc = "forex_get" =>
            \A resp \in LookupResponses :
                ( /\ Fold(task[Caller].currency) # Fold(ALL)
                  /\ FeedSequence(resp)
                  /\ get_forex_rates_resume(Caller, resp, TRUE) ) =>
                    ListsCodes(task[Caller].currency, resp.body.items, ret'.result)
      ]_vars

\* xyz was asked for on a cached feed of usd and eur, and the answer lists both
C12_Witness ==
    /\ ret.tool = "get_forex_rates"
    /\ ret.currency = <<"x", "y", "z">>
    /\ ret.resp = NoResponse
    /\ cache["forex"].data = PyList(<<RateRecord(<<"u", "s", "d">>, 1),
                                      RateRecord(<<"e", "u", "r">>, 1)>>)
    /\ DictGet(ret.result, "success") = PyBool(FALSE)
    /\ EndsWith(DictGet(ret.result, "error").s,
                <<"U", "S", "D", ",", " ", "E", "U", "R">>)

\* result holds every record of items, in order, and their number
HoldsAll(data, result) ==
    /\ DictGet(result, "success") = PyBool(TRUE)
    /\ DictGet(result, "rates") = data
    /\ DictGet(DictGet(result, "data"), "rates") = data
    /\ DictGet(result, "count") = PyInt(Len(data.items))

\* C13: a get_forex_rates call whose argument is "ALL" after trimming and
\* ignoring case, answered from the cached or the fetched sequence, returns
\* success=true with every record of the sequence in order and a count equal
\* to the length of the sequence.
C13_AllRecords ==
    [][/\ task[Caller].pc = "idle" =>
            \A currency \in LookupCurrencies :
                ( /\ Fold(currency) = Fold(ALL)
                  /\ get_forex_rates(Caller, currency, TRUE)
                  /\ task'[Caller].pc = "idle" ) =>
                    HoldsAll(cache["forex"].data, ret'.result)
       /\ task[Caller].pc = "forex_get" =>
            \A resp \in LookupResponses :
                ( /\ Fold(task[Caller].currency) = Fold(ALL)
                  /\ FeedSequence(resp)
                  /\ get_forex_rates_resume(Caller, resp, TRUE) ) =>
                    HoldsAll(resp.body, ret'.result)
      ]_vars

\* " all " was asked for and the two cached records were returned
C13_Witness ==
    /\ ret.tool = "get_forex_rates"
    /\ ret.currency = <<" ", "a", "l", "l", " ">>
    /\ ret.resp = NoResponse
    /\ Len(cache["forex"].data.items) = 2
    /\ DictGet(ret.result, "success") = PyBool(TRUE)
    /\ DictGet(ret.result, "count") = PyInt(2)
    /\ DictGet(ret.result, "rates") = cache["forex"].data

\* the request did not bring a JSON body: it timed out, the network failed, the
\* status is outside 2xx, or the body is no JSON
RequestFailed(resp) ==
    \/ resp.kind \in {"timeout", "network"}
    \/ ~(resp.status >= 200 /\ resp.status <= 299)
    \/ resp.body = Malformed

\* C14: an invocation of get_bullion_prices or get_forex_rates issues one
\* request or none, and once its request has come back it issues no further
\* request: it returns at that step, and when the request failed what it
\* returns is a failure result.
C14_NoRetry ==
    [][/\ task[Caller].pc = "idle" =>
            /\ get_bullion_prices(Caller, TRUE) =>
                    task'[Caller].requests
                        = IF task'[Caller].pc = "bullion_get" THEN 1 ELSE 0
            /\ \A currency \in Currencies :
                    get_forex_rates(Caller, currency, TRUE) =>
                        task'[Caller].requests
                            = IF task'[Caller].pc = "forex_get" THEN 1 ELSE 0
       /\ task[Caller].pc = "bullion_get" =>
            \A resp \in BullionResponses :
                get_bullion_prices_resume(Caller, resp, TRUE) =>
                    /\ task'[Caller].pc = "idle"
                    /\ ret'.tool = "get_bullion_prices"
                    /\ ret'.resp = resp
                    /\ RequestFailed(resp) =>
                            DictGet(ret'.result, "success") = PyBool(FALSE)
       /\ task[Caller].pc = "forex_get" =>
            \A resp \in ForexResponses :
                get_forex_rates_resume(Caller, resp, TRUE) =>
                    /\ task'[Caller].pc = "idle"
                    /\ ret'.tool = "get_forex_rates"
                    /\ ret'.resp = resp
                    /\ RequestFailed(resp) =>
                            DictGet(ret'.result, "success") = PyBool(FALSE)
      ]_vars

\* get_bullion_prices has returned the failure of its one request, a timeout,
\* and no request is in flight
C14_Witness ==
    /\ ret.tool = "get_bullion_prices"
    /\ ret.resp.kind = "timeout"
    /\ ret.result = TimedOutResult
    /\ task[Caller].pc = "idle"
    /\ cache["bullion"].data = None

\* C15: is_cache_valid(slot) is true exactly when the slot's payload is not
\* None, its expires_at is not None and the current instant is before
\* expires_at; it is false for a slot that no set_cache has written, so for
\* both slots at process start.
C15_ValidIff ==
    \A slot \in Slots :
        /\ is_cache_valid(slot) <=>
                ( /\ cache[slot].data # None
                  /\ cache[slot].expires_at # None
                  /\ now < cache[slot].expires_at.h )
        /\ lastWrite[slot].at = None => ~is_cache_valid(slot)

\* past 11:00, the forex slot holds what was written before 11:00 and is not
\* valid, and the bullion slot has never been written and is not valid either
C15_Witness ==
    /\ cache["forex"].data # None
    /\ lastWrite["forex"].at # None
    /\ now >= ExpirationHour
    /\ cache["forex"].expires_at = Instant(ExpirationHour)
    /\ ~is_cache_valid("forex")
    /\ lastWrite["bullion"].at = None
    /\ ~is_cache_valid("bullion")

\* C16: the cache checks modify nothing.  A get_forex_rates or get_banking_rates
\* invocation, which up to its first request does nothing to the cache but call
\* get_cache (and through it is_cache_valid), leaves payload and expires_at of
\* both slots as they were, valid, stale or empty; and a stale entry stays as
\* it is at every step that makes no set_cache on its slot.
C16_ChecksModifyNothing ==
    [][/\ \A p \in Procs :
            ( /\ task[p].pc = "idle"
              /\ \/ get_forex_rates(p, ALL, FALSE)
                 \/ get_banking_rates(p, FALSE) ) =>
                cache' = cache
       /\ \A slot \in Slots :
            (Stale(slot) /\ lastWrite'[slot] = lastWrite[slot]) =>
                cache'[slot] = cache[slot]
      ]_vars

\* get_banking_rates has checked both slots past 11:00, and both still store
\* the payloads that expired at 11:00
C16_Witness ==
    \E p \in Procs :
        /\ task[p].pc = "banking_forex_get"
        /\ Stale("forex")
        /\ cache["forex"].data # None
        /\ Stale("bullion")
        /\ cache["bullion"].data # None

\* v has the form of the result get_bullion_prices builds: success=true and a
\* data object with gold and silver
Shaped(v) ==
    /\ v.t = "dict"
    /\ DictGet(v, "success") = PyBool(TRUE)
    /\ DictGet(v, "data").t = "dict"
    /\ {"gold", "silver"} \subseteq DOMAIN DictGet(v, "data").d

\* C17 as stated: whichever of get_bullion_prices and get_banking_rates wrote
\* it, a payload stored in the bullion slot has the form of the result
\* get_bullion_prices builds, and what get_bullion_prices returns without a
\* request, from the cache, has success=true and data.gold and data.silver.
C17_BullionSlotShaped ==
    /\ cache["bullion"].data # None => Shaped(cache["bullion"].data)
    /\ (ret.tool = "get_bullion_prices" /\ ret.resp = NoResponse) =>
            Shaped(ret.result)

\* The most recent 11:00 not later than instant t.
lastBoundary(t) == nextBoundary(t) - HoursPerDay

\* C18 as stated: whenever get_cache(slot) returns a payload, the request that
\* brought it was made at or after the most recent 11:00 not later than the
\* current instant.
C18_ServedSinceBoundary ==
    \A slot \in Slots :
        get_cache(slot) # None =>
            /\ lastWrite[slot].asked # None
            /\ lastWrite[slot].asked.h >= lastBoundary(now)

\* C19 as stated: a get_bullion_prices or get_forex_rates invocation that is
\* answered from the cache, without a request, leaves the payload (every field
\* of it) and the expires_at of both slots as they were.
C19_HitLeavesStore ==
    [][task[Caller].pc = "idle" =>
        /\ (get_bullion_prices(Caller, TRUE) /\ task'[Caller].pc = "idle") =>
                cache' = cache
        /\ \A currency \in Currencies :
                (get_forex_rates(Caller, currency, TRUE) /\ task'[Caller].pc = "idle") =>
                    cache' = cache
      ]_vars

\* result is a failure whose message begins "Unexpected error: "
Unexpected(result) ==
    /\ result.t = "dict"
    /\ DictGet(result, "success") = PyBool(FALSE)
    /\ DictGet(result, "error").t = "str"
    /\ DictGet(result, "error").s # <<>>
    /\ Head(DictGet(result, "error").s) = "Unexpected error: "

\* C20 as stated: a get_forex_rates invocation that returns an "Unexpected
\* error" failure has left the forex slot as it was, and an invocation
\* answered from a valid cached payload does not return an "Unexpected error".
C20_UnexpectedKeepsSlot ==
    [][/\ task[Caller].pc = "forex_get" =>
            \A resp \in ForexResponses :
                ( /\ get_forex_rates_resume(Caller, resp, TRUE)
                  /\ Unexpected(ret'.result) ) =>
                    cache'["forex"] = cache["forex"]
       /\ task[Caller].pc = "idle" =>
            \A currency \in Currencies :
                (get_forex_rates(Caller, currency, TRUE) /\ task'[Caller].pc = "idle") =>
                    ~Unexpected(ret'.result)
      ]_vars

====
